---- MODULE Spec2Model ----
(***************************************************************************)
(* A model of the route endpoint of fujisuite-server (package nav):        *)
(* HandleRoute, route, routeTransitUS, decodePolyline, getStepIcon and the *)
(* plain-text writer.  Floating point values are modelled exactly:         *)
(* coordinates of a polyline in units of 10^-5 degree, lengths in          *)
(* thousandths of the backend's unit, distances as fractions.              *)
(***************************************************************************)
EXTENDS Integers, Sequences, FiniteSets, TLC

VARIABLES
    navConfig,  \* the process-wide configuration (SetConfig)
    pc,         \* where the worker of the current request is
    httpReq,    \* the inbound HTTP request
    callerReq,  \* the RouteRequest value the handler built and passed to route()
    req,        \* route()'s own copy of the RouteRequest (by-value parameter)
    calls,      \* the backend calls of this request, in order, with their answers
    inflight,   \* the backend calls that are issued and not yet answered
    outcome,    \* what route() returned to the handler
    resp,       \* what was written to the http.ResponseWriter
    encoded,    \* the input string of a stand-alone decodePolyline call
    decoded,    \* what that call returned
    fmtDistance, \* the distance of a stand-alone formatDistance call
    fmtUnits,   \* the units of that call
    fmtText     \* what that call returned ("" before it returns)

vars ==
    <<navConfig, pc, httpReq, callerReq, req, calls, inflight, outcome, resp,
      encoded, decoded, fmtDistance, fmtUnits, fmtText>>

routeVars == <<navConfig, pc, httpReq, callerReq, req, calls, inflight, outcome, resp>>

decodeVars == <<encoded, decoded>>

formatVars == <<fmtDistance, fmtUnits, fmtText>>

None == [none |-> TRUE]

(***************************************************************************)
(* Bounds of the model.                                                    *)
(***************************************************************************)
\* longest generated encoded string (the seeds of DecodeSeeds may be longer)
MaxLen == 6

\* most characters one encoded value may span in a generated string
MaxChunks == 3

\* greatest distance given to a stand-alone formatDistance call, in
\* thousandths of the unit
MaxThousandths == 1500

(***************************************************************************)
(* types.go                                                                *)
(***************************************************************************)
ModeWalking == "walking"

ModeBiking == "biking"

ModeAuto == "auto"

ModeTransit == "transit"

DefaultMode == ModeAuto

UnitKilometers == "km"

UnitMiles == "mi"

DefaultUnit == UnitKilometers

NormalizedGridSize == 100

(***************************************************************************)
(* Integer helpers of routing.go.                                          *)
(***************************************************************************)
min(a, b) == IF a < b THEN a ELSE b

max(a, b) == IF a > b THEN a ELSE b

abs(x) == IF x < 0 THEN -x ELSE x

\* math.Round of the non-negative fraction n/d (d > 0): half away from zero.
Round(n, d) == (n \div d) + (IF 2 * (n % d) >= d THEN 1 ELSE 0)

(***************************************************************************)
(* decodePolyline, first pass: the encoded string is a sequence of         *)
(* character codes.                                                        *)
(***************************************************************************)
precision == 5

factor == 10 ^ precision

\* One inner loop "for byte >= 0x20": reads 5-bit groups from enc[index]
\* (1-based here).  mult is 2^shift; result |= x << shift adds x * mult,
\* the groups being disjoint.  Indexing past the end of the string panics.
RECURSIVE readVarint(_, _, _, _)
readVarint(enc, index, mult, result) ==
    IF index > Len(enc)
    THEN [panic |-> TRUE, result |-> 0, index |-> index]
    ELSE LET byte == enc[index] - 63
             r == result + (byte % 32) * mult
         IN  IF byte >= 32
             THEN readVarint(enc, index + 1, mult * 32, r)
             ELSE [panic |-> FALSE, result |-> r, index |-> index + 1]

\* "if (result & 1) > 0 { lat += ^(result >> 1) } else { lat += result >> 1 }"
zigzag(result) ==
    IF result % 2 = 1 THEN -(result \div 2) - 1 ELSE result \div 2

\* The outer loop "for index < len(encoded)": rawPoints as <<lat, lng>> pairs
\* in units of 1/factor degree.
RECURSIVE decodeRaw(_, _, _, _, _)
decodeRaw(enc, index, lat, lng, rawPoints) ==
    IF index > Len(enc)
    THEN [panic |-> FALSE, rawPoints |-> rawPoints]
    ELSE LET a == readVarint(enc, index, 1, 0)
         IN  IF a.panic
             THEN [panic |-> TRUE, rawPoints |-> rawPoints]
             ELSE LET b == readVarint(enc, a.index, 1, 0)
                  IN  IF b.panic
                      THEN [panic |-> TRUE, rawPoints |-> rawPoints]
                      ELSE LET lat2 == lat + zigzag(a.result)
                               lng2 == lng + zigzag(b.result)
                           IN  decodeRaw(enc, b.index, lat2, lng2,
                                         Append(rawPoints, <<lat2, lng2>>))

(***************************************************************************)
(* decodePolyline, bounds and second pass.                                 *)
(***************************************************************************)
RECURSIVE seqMin(_, _, _)
seqMin(s, k, i) ==
    IF i > Len(s) THEN s[1][k]
    ELSE LET m == seqMin(s, k, i + 1) IN IF s[i][k] < m THEN s[i][k] ELSE m

RECURSIVE seqMax(_, _, _)
seqMax(s, k, i) ==
    IF i > Len(s) THEN s[1][k]
    ELSE LET m == seqMax(s, k, i + 1) IN IF s[i][k] > m THEN s[i][k] ELSE m

\* "latRange := maxLat - minLat; if latRange == 0 { latRange = 1 }": one
\* degree is factor units.
spanOf(lo, hi) == IF hi - lo = 0 THEN factor ELSE hi - lo

\* A version of gridCoord that rounds up by adding one and does not clamp.
gridCoordRoundsUp(v, lo, range) == ((v - lo) * NormalizedGridSize) \div range + 1

\* "x := int(math.Round((p[1] - minLng) / lngRange * 100));
\*  x = max(0, min(NormalizedGridSize, x))"
gridCoord(v, lo, range) ==
    max(0, min(NormalizedGridSize, Round((v - lo) * NormalizedGridSize, range)))

\* A version of isDuplicate that looks at the last retained point only.
isDuplicateOfLast(normalizedPoints, x, y) ==
    /\ Len(normalizedPoints) > 0
    /\ LET existing == normalizedPoints[Len(normalizedPoints)]
       IN  abs(x - existing[1]) + abs(y - existing[2]) <= 2

\* "for _, existing := range normalizedPoints { dist := ...; if dist <= 2 {"
isDuplicate(normalizedPoints, x, y) ==
    \E i \in 1..Len(normalizedPoints) :
        abs(x - normalizedPoints[i][1]) + abs(y - normalizedPoints[i][2]) <= 2

\* The projected points, before the near-duplicates are dropped.
projectAll(rawPoints) ==
    LET minLat == seqMin(rawPoints, 1, 2)
        maxLat == seqMax(rawPoints, 1, 2)
        minLng == seqMin(rawPoints, 2, 2)
        maxLng == seqMax(rawPoints, 2, 2)
        latRange == spanOf(minLat, maxLat)
        lngRange == spanOf(minLng, maxLng)
    IN  [i \in 1..Len(rawPoints) |->
            <<gridCoord(rawPoints[i][2], minLng, lngRange),
              gridCoord(rawPoints[i][1], minLat, latRange)>>]

RECURSIVE dedup(_, _, _)
dedup(projected, i, normalizedPoints) ==
    IF i > Len(projected) THEN normalizedPoints
    ELSE dedup(projected, i + 1,
               IF isDuplicate(normalizedPoints, projected[i][1], projected[i][2])
               THEN normalizedPoints
               ELSE Append(normalizedPoints, projected[i]))

\* A version that returns an empty path for a single decoded point.
decodePolylineDropsSingle(enc) ==
    IF enc = <<>> THEN [panic |-> FALSE, points |-> <<>>]
    ELSE LET d == decodeRaw(enc, 1, 0, 0, <<>>)
         IN  IF d.panic THEN [panic |-> TRUE, points |-> <<>>]
             ELSE IF Len(d.rawPoints) <= 1 THEN [panic |-> FALSE, points |-> <<>>]
             ELSE [panic |-> FALSE, points |-> dedup(projectAll(d.rawPoints), 1, <<>>)]

\* decodePolyline: the returned []PathPoint, or a panic (index out of range).
decodePolyline(enc) ==
    IF enc = <<>> THEN [panic |-> FALSE, points |-> <<>>]
    ELSE LET d == decodeRaw(enc, 1, 0, 0, <<>>)
         IN  IF d.panic THEN [panic |-> TRUE, points |-> <<>>]
             ELSE IF Len(d.rawPoints) = 0 THEN [panic |-> FALSE, points |-> <<>>]
             ELSE [panic |-> FALSE, points |-> dedup(projectAll(d.rawPoints), 1, <<>>)]

(***************************************************************************)
(* Encoded curves used below.                                              *)
(***************************************************************************)
\* The curve of the spec's scenario: "_p~iF~ps|U_ulLnnqC_mqNvxq`@".
ScenarioCurve ==
    <<95, 112, 126, 105, 70, 126, 112, 115, 124, 85, 95, 117, 108, 76,
      110, 110, 113, 67, 95, 109, 113, 78, 118, 120, 113, 96, 64>>

\* "??_B?`B?": latitudes 0, 48, -1 at one longitude.
NearCurve == <<63, 63, 95, 66, 63, 96, 66, 63>>

\* "_B`B????": the point (48, -49) three times.
RepeatCurve == <<95, 66, 96, 66, 63, 63, 63, 63>>

\* "_B?~A?": latitudes 48, 0 at one longitude; it starts at the geographic
\* point where NearCurve's second point lies.
DownCurve == <<95, 66, 63, 126, 65, 63>>

(***************************************************************************)
(* Text.  A string the code handles is a TLA+ string; a text that may hold *)
(* line breaks (a backend's raw body, an error message built from it) is   *)
(* the sequence of its lines; a coordinate parameter is the sequence of    *)
(* its comma-separated fields (what strings.Split(s, ",") returns).        *)
(***************************************************************************)
\* strings.ToLower on the texts of the model
ToLower(s) ==
    CASE s = "Transit" -> "transit"
      [] s = "MI" -> "mi"
      [] s = "DE" -> "de"
      [] OTHER -> s

\* strings.ToUpper on the texts of the model (all leg modes are upper case)
ToUpper(s) == s

\* strings.TrimSpace on the texts of the model
TrimSpace(s) ==
    CASE s = " -74.0" -> "-74.0"
      [] s = " km" -> "km"
      [] OTHER -> s

\* len(s) of the country texts of the model
StrLen(s) ==
    CASE s = "" -> 0
      [] s = "usa" -> 3
      [] OTHER -> 2

\* the texts strconv.ParseFloat accepts, among the fields of the model
FloatTexts == {"40.7", "-74.0", "34.0", "-118.2"}

RECURSIVE Join(_, _)
Join(fields, sep) ==
    IF Len(fields) = 0 THEN ""
    ELSE IF Len(fields) = 1 THEN fields[1]
    ELSE fields[1] \o sep \o Join(Tail(fields), sep)

\* fmt.Sprintf("%.1f", n/d) for a fraction n/d >= 0
Format1(n, d) ==
    LET t == 10 * (n \div d) + Round(10 * (n % d), d)
    IN  ToString(t \div 10) \o "." \o ToString(t % 10)

\* fmt.Sprintf("%.0f", n/d) for a fraction n/d >= 0
Format0(n, d) == ToString(Round(n, d))

(***************************************************************************)
(* types.go: validity of the enumerations.                                 *)
(***************************************************************************)
ModeIsValid(m) == m \in {ModeWalking, ModeBiking, ModeAuto, ModeTransit}

UnitIsValid(u) == u \in {UnitKilometers, UnitMiles}

CountryIsValid(c) == StrLen(c) = 2

(***************************************************************************)
(* handlers.go: formatting and the writers.  A response is what the        *)
(* ResponseWriter got: the status (200 unless WriteHeader was called), the *)
(* content type, and the body: the lines of a plain text, or the JSON      *)
(* value (an error message or a RouteResponse).                            *)
(***************************************************************************)
formatDuration(seconds) ==
    LET hours == seconds \div 3600
        minutes == (seconds - hours * 3600) \div 60
    IN  IF hours > 0
        THEN IF minutes > 0
             THEN ToString(hours) \o "hr " \o ToString(minutes) \o "min"
             ELSE ToString(hours) \o "hr"
        ELSE ToString(minutes) \o "min"

\* A version that prints every distance below one mile in feet.
formatDistanceFeetBelowOne(distance, units) ==
    LET n == distance[1]
        d == distance[2]
    IN  IF units = UnitMiles
        THEN IF n < d
             THEN Format0(n * 5280, d) \o "ft"
             ELSE Format1(n, d) \o "mi"
        ELSE IF n < d
             THEN Format0(n * 1000, d) \o "m"
             ELSE Format1(n, d) \o "km"

\* distance is the fraction <<n, d>>
formatDistance(distance, units) ==
    LET n == distance[1]
        d == distance[2]
    IN  IF units = UnitMiles
        THEN IF 10 * n < d
             THEN Format0(n * 5280, d) \o "ft"
             ELSE Format1(n, d) \o "mi"
        ELSE IF n < d
             THEN Format0(n * 1000, d) \o "m"
             ELSE Format1(n, d) \o "km"

\* A version that appends the distance to the last step too.
RECURSIVE stepLinesDistanceOnLast(_, _)
stepLinesDistanceOnLast(result, i) ==
    IF i > Len(result.Steps) THEN <<>>
    ELSE LET step == result.Steps[i]
         IN  <<step.Icon,
               IF result.Mode # ModeTransit
               THEN step.Description \o " ("
                      \o formatDistance(step.Distance, result.Units) \o ")"
               ELSE step.Description>>
             \o stepLinesDistanceOnLast(result, i + 1)

\* the lines "for i, step := range result.Steps" writes
RECURSIVE stepLines(_, _)
stepLines(result, i) ==
    IF i > Len(result.Steps) THEN <<>>
    ELSE LET step == result.Steps[i]
         IN  <<step.Icon,
               IF result.Mode # ModeTransit /\ i < Len(result.Steps)
               THEN step.Description \o " ("
                      \o formatDistance(step.Distance, result.Units) \o ")"
               ELSE step.Description>>
             \o stepLines(result, i + 1)

\* A version that writes no icon line for a step without an icon.
RECURSIVE stepLinesSkipEmptyIcon(_, _)
stepLinesSkipEmptyIcon(result, i) ==
    IF i > Len(result.Steps) THEN <<>>
    ELSE LET step == result.Steps[i]
             desc == IF result.Mode # ModeTransit /\ i < Len(result.Steps)
                     THEN step.Description \o " ("
                            \o formatDistance(step.Distance, result.Units) \o ")"
                     ELSE step.Description
         IN  (IF step.Icon = "" THEN <<desc>> ELSE <<step.Icon, desc>>)
             \o stepLinesSkipEmptyIcon(result, i + 1)

writePlainTextRouteSkipEmptyIcon(result) ==
    [status |-> 200, ctype |-> "text/plain", kind |-> "text",
     lines |-> <<formatDuration(result.Duration),
                 formatDistance(result.Distance, result.Units),
                 ToString(Len(result.Steps))>>
               \o stepLinesSkipEmptyIcon(result, 1),
     error |-> <<>>, result |-> None]

writePlainTextRoute(result) ==
    [status |-> 200, ctype |-> "text/plain", kind |-> "text",
     lines |-> <<formatDuration(result.Duration),
                 formatDistance(result.Distance, result.Units),
                 ToString(Len(result.Steps))>>
               \o stepLines(result, 1),
     error |-> <<>>, result |-> None]

\* message: the lines of the error text
writeError(code, message) ==
    [status |-> code, ctype |-> "application/json", kind |-> "json-error",
     lines |-> <<>>, error |-> message, result |-> None]

writeJSON(data) ==
    [status |-> 200, ctype |-> "application/json", kind |-> "json",
     lines |-> <<>>, error |-> <<>>, result |-> data]

\* fmt.Fprintf(w, "\n\n0\n%s\n", message) after Content-Type: text/plain
writeStub(message) ==
    [status |-> 200, ctype |-> "text/plain", kind |-> "text",
     lines |-> <<"", "", "0">> \o message,
     error |-> message, result |-> None]

\* The handler's goroutine panicked: net/http recovers, closes the
\* connection, and nothing was written.
Aborted ==
    [status |-> 0, ctype |-> "", kind |-> "aborted",
     lines |-> <<>>, error |-> <<>>, result |-> None]

\* A version of parseLatLng that takes a lone field as the latitude.
parseLatLngLoneField(s) ==
    IF Len(s) = 1 /\ TrimSpace(s[1]) \in FloatTexts
    THEN [ok |-> TRUE, lat |-> TrimSpace(s[1]), lng |-> "0", err |-> ""]
    ELSE IF Len(s) # 2
    THEN [ok |-> FALSE, lat |-> "0", lng |-> "0", err |-> "invalid lat,lng format"]
    ELSE IF TrimSpace(s[1]) \notin FloatTexts
    THEN [ok |-> FALSE, lat |-> "0", lng |-> "0", err |-> "invalid latitude"]
    ELSE IF TrimSpace(s[2]) \notin FloatTexts
    THEN [ok |-> FALSE, lat |-> "0", lng |-> "0", err |-> "invalid longitude"]
    ELSE [ok |-> TRUE, lat |-> TrimSpace(s[1]), lng |-> TrimSpace(s[2]), err |-> ""]

\* s is the sequence of the comma-separated fields of the parameter
parseLatLng(s) ==
    IF Len(s) # 2
    THEN [ok |-> FALSE, lat |-> "0", lng |-> "0", err |-> "invalid lat,lng format"]
    ELSE IF TrimSpace(s[1]) \notin FloatTexts
    THEN [ok |-> FALSE, lat |-> "0", lng |-> "0", err |-> "invalid latitude"]
    ELSE IF TrimSpace(s[2]) \notin FloatTexts
    THEN [ok |-> FALSE, lat |-> "0", lng |-> "0", err |-> "invalid longitude"]
    ELSE [ok |-> TRUE, lat |-> TrimSpace(s[1]), lng |-> TrimSpace(s[2]), err |-> ""]

RouteRequest(fromLat, fromLng, toLat, toLng, fromDesc, toDesc, mode, units, country) ==
    [FromLat |-> fromLat, FromLng |-> fromLng, ToLat |-> toLat, ToLng |-> toLng,
     FromDesc |-> fromDesc, ToDesc |-> toDesc,
     Mode |-> mode, Units |-> units, Country |-> country]

\* HandleRoute, case http.MethodGet, up to the call of handleRouteRequest:
\* the response of an early return, or the RouteRequest.
validateGet(q) ==
    LET country == ToLower(q.country)
        transportMode == IF q.mode = "" THEN DefaultMode ELSE ToLower(q.mode)
        distanceUnit == IF q.units = "" THEN DefaultUnit ELSE ToLower(q.units)
        f == parseLatLng(q.from)
        t == parseLatLng(q.to)
    IN  IF Join(q.from, ",") = "" \/ Join(q.to, ",") = ""
        THEN [ok |-> FALSE,
              resp |-> writeError(400, <<"both 'from' and 'to' parameters are required">>)]
        ELSE IF country # "" /\ ~CountryIsValid(country)
        THEN [ok |-> FALSE,
              resp |-> writeError(400, <<"country must be a valid 2-letter ISO code in lowercase">>)]
        ELSE IF ~ModeIsValid(transportMode)
        THEN [ok |-> FALSE,
              resp |-> writeError(400, <<"invalid mode. Must be one of: walking, biking, auto, transit">>)]
        ELSE IF ~UnitIsValid(distanceUnit)
        THEN [ok |-> FALSE,
              resp |-> writeError(400, <<"invalid units. Must be one of: km, mi">>)]
        ELSE IF ~f.ok
        THEN [ok |-> FALSE,
              resp |-> writeError(400, <<"invalid 'from' parameter: " \o f.err>>)]
        ELSE IF ~t.ok
        THEN [ok |-> FALSE,
              resp |-> writeError(400, <<"invalid 'to' parameter: " \o t.err>>)]
        ELSE [ok |-> TRUE,
              req |-> RouteRequest(f.lat, f.lng, t.lat, t.lng, q.fromDesc, q.toDesc,
                                   transportMode, distanceUnit, country)]

\* HandleRoute, case http.MethodPost, up to the call of route(): lines is
\* strings.Split(strings.TrimSpace(body), "\n"), each line as its fields.
validatePost(readErr, lines) ==
    IF readErr
    THEN [ok |-> FALSE, resp |-> writeStub(<<"failed to read request body">>)]
    ELSE IF Len(lines) < 5
    THEN [ok |-> FALSE, resp |-> writeStub(<<"request must contain at least 5 lines">>)]
    ELSE LET mode == TrimSpace(Join(lines[1], ","))
             country == TrimSpace(Join(lines[2], ","))
             units == TrimSpace(Join(lines[3], ","))
             transportMode == IF ModeIsValid(ToLower(mode))
                              THEN ToLower(mode) ELSE DefaultMode
             distanceUnit == IF UnitIsValid(ToLower(units))
                             THEN ToLower(units) ELSE DefaultUnit
             countryCode == IF CountryIsValid(ToLower(country))
                            THEN ToLower(country) ELSE "us"
             fromDesc == IF Len(lines) > 5 THEN TrimSpace(Join(lines[6], ",")) ELSE ""
             toDesc == IF Len(lines) > 6 THEN TrimSpace(Join(lines[7], ",")) ELSE ""
             f == parseLatLng(lines[4])
             t == parseLatLng(lines[5])
         IN  IF ~f.ok
             THEN [ok |-> FALSE, resp |-> writeStub(<<"invalid 'from' coordinates">>)]
             ELSE IF ~t.ok
             THEN [ok |-> FALSE, resp |-> writeStub(<<"invalid 'to' coordinates">>)]
             ELSE [ok |-> TRUE,
                   req |-> RouteRequest(f.lat, f.lng, t.lat, t.lng, fromDesc, toDesc,
                                        transportMode, distanceUnit, countryCode)]

(***************************************************************************)
(* routing.go: units, icons, instructions.                                 *)
(***************************************************************************)
\* metersPerMile = 1609.344, in thousandths of a meter
metersPerMileMilli == 1609344

getTransportMode(mode) ==
    CASE mode = ModeWalking -> "pedestrian"
      [] mode = ModeBiking -> "bicycle"
      [] mode = ModeTransit -> "transit"
      [] OTHER -> "auto"

getValhallaUnits(units) == IF units = UnitMiles THEN "miles" ELSE "kilometers"

\* meters is a whole number here; the result is the fraction <<n, d>>
convertDistance(meters, units) ==
    IF units = UnitMiles
    THEN <<meters * 1000, metersPerMileMilli>>
    ELSE <<meters, 1000>>

\* formatUSDistance(meters): feet = meters * 3.28084
formatUSDistance(meters) ==
    IF meters * 328084 < 1000 * 100000
    THEN Format0(meters * 328084, 100000) \o " feet"
    ELSE IF meters * 328084 < 528 * 100000
    THEN Format0(meters * 328084, 100000) \o " feet"
    ELSE Format1(meters * 82021, 5280 * 25000) \o " miles"

getStepIcon(maneuverType, instruction, mode) ==
    LET m == ToUpper(mode)
    IN  CASE m = "BUS" -> "Bus"
          [] m \in {"RAIL", "SUBWAY", "TRAM", "TRAIN"} -> "Train"
          [] m \in {"FERRY", "BOAT"} -> "Ferry"
          [] m = "WALK" -> "Walk"
          [] OTHER ->
             CASE maneuverType \in {2, 10, 11, 12, 1} -> "Right"
               [] maneuverType \in {3, 13, 14, 15, 19} -> "Left"
               [] maneuverType \in {9, 23} -> "right"
               [] maneuverType \in {16, 24} -> "left"
               [] maneuverType \in {7, 8, 17, 22} -> "Straight"
               [] maneuverType \in {25, 26, 37, 38} -> "Merge"
               [] maneuverType \in {20, 21, 27} -> "Exit"
               [] maneuverType \in {28, 29} -> "Ferry"
               [] maneuverType \in {42, 43} -> "building"
               [] OTHER -> ""

\* An instruction is [words, period]: its words, and whether a period ends it.
ArrivedPhrase == "You have arrived at your destination"

\* the replacements of " <word>" (any word but the first)
abbrevSuffix(w) ==
    CASE w = "onto" -> "on"
      [] w = "Avenue" -> "Ave"
      [] w = "Street" -> "St"
      [] w = "Road" -> "Rd"
      [] w = "Drive" -> "Dr"
      [] OTHER -> w

\* the replacements of " <word> " (a word that is neither first nor last)
abbrevCompass(w) ==
    CASE w = "North" -> "N"
      [] w = "South" -> "S"
      [] w = "East" -> "E"
      [] w = "West" -> "W"
      [] OTHER -> w

abbreviateInstruction(instruction) ==
    LET w == instruction.words
    IN  IF \E i \in 1..Len(w) : w[i] = ArrivedPhrase
        THEN "Arrive at destination"
        ELSE Join([i \in 1..Len(w) |->
                      IF i = 1 THEN w[i]
                      ELSE IF i < Len(w) /\ w[i] \in {"North", "South", "East", "West"}
                      THEN abbrevCompass(w[i])
                      ELSE IF w[i] = "onto" /\ i = Len(w) THEN w[i]
                      ELSE abbrevSuffix(w[i])], " ")

(***************************************************************************)
(* What the backends may answer.                                           *)
(***************************************************************************)
Maneuver(type, words, period, lengthMilli) ==
    [type |-> type, instruction |-> [words |-> words, period |-> period],
     lengthMilli |-> lengthMilli]

ManDepart == Maneuver(1, <<"Drive", "North", "on", "Main", "Street">>, TRUE, 1200)

ManLeft == Maneuver(15, <<"Turn", "left", "onto", "Ocean", "Drive">>, TRUE, 2000)

ManOdd == Maneuver(99, <<"Continue">>, FALSE, 450)

ManArrive == Maneuver(4, <<ArrivedPhrase>>, TRUE, 0)

Trip(legs, time, lengthMilli) ==
    [legs |-> legs, summary |-> [time |-> time, lengthMilli |-> lengthMilli]]

Leg(maneuvers, shape) == [maneuvers |-> maneuvers, shape |-> shape]

TripNoLegs == Trip(<<>>, 0, 0)

TripOneLeg == Trip(<<Leg(<<ManDepart, ManLeft, ManArrive>>, ScenarioCurve)>>, 625, 3200)

TripShort == Trip(<<Leg(<<ManOdd, ManOdd>>, <<>>)>>, 3725, 900)

TripTwoLegs ==
    Trip(<<Leg(<<ManDepart, ManLeft>>, NearCurve), Leg(<<ManArrive>>, RepeatCurve)>>,
         4500, 3200)

\* a shape that ends inside a value
TripBadShape == Trip(<<Leg(<<ManDepart>>, <<63, 95>>)>>, 60, 1200)

Trips == {TripNoLegs, TripOneLeg, TripShort, TripTwoLegs, TripBadShape}

NoTrip == Trip(<<>>, 0, 0)

\* An answer to the POST to Valhalla.
VAnswer(kind, status, parsed, code, message, body, trip) ==
    [kind |-> kind, status |-> status, parsed |-> parsed, error_code |-> code,
     error |-> message, body |-> body, trip |-> trip, itineraries |-> <<>>]

ValhallaAnswers ==
    {VAnswer("neterr", 0, FALSE, 0, "", <<"connection refused">>, NoTrip),
     VAnswer("status", 400, TRUE, 170, "Locations are not connected", <<>>, NoTrip),
     VAnswer("status", 400, TRUE, 171, "No path could be found for input", <<>>, NoTrip),
     VAnswer("status", 500, TRUE, 0, "", <<>>, NoTrip),
     VAnswer("status", 502, FALSE, 0, "", <<"Bad Gateway">>, NoTrip),
     VAnswer("status", 502, FALSE, 0, "", <<"<html>", "</html>", "">>, NoTrip),
     VAnswer("readfail", 500, FALSE, 0, "", <<"unexpected EOF">>, NoTrip),
     VAnswer("undecodable", 200, FALSE, 0, "", <<"unexpected end of JSON input">>, NoTrip)}
    \cup {VAnswer("ok", 200, TRUE, 0, "", <<>>, t) : t \in Trips}

ItinLeg(mode, distance, fromName, toName, short, long, agency, stops, points) ==
    [mode |-> mode, distance |-> distance, fromName |-> fromName, toName |-> toName,
     routeShortName |-> short, routeLongName |-> long, agencyName |-> agency,
     intermediateStops |-> stops, points |-> points]

LegModes ==
    {"WALK", "BUS", "RAIL", "SUBWAY", "TRAM", "FERRY", "TRAIN", "BOAT", "CABLE_CAR"}

LegOf(mode) ==
    IF mode = "WALK"
    THEN ItinLeg("WALK", 400, "", "Pine St", "", "", "", 0, NearCurve)
    ELSE ItinLeg(mode, 5200, "Pine St", "Lake Ave", "12", "", "Metro", 3, RepeatCurve)

Itinerary(duration, walkDistance, legs) ==
    [duration |-> duration, walkDistance |-> walkDistance, legs |-> legs]

Itineraries ==
    {Itinerary(1500, 400, <<LegOf(m)>>) : m \in LegModes}
    \cup {Itinerary(2400, 700,
                    <<LegOf("WALK"), LegOf("BUS"),
                      ItinLeg("WALK", 300, "Lake Ave", "", "", "", "", 0, <<>>)>>),
          Itinerary(1800, 400,
                    <<ItinLeg("WALK", 400, "", "Pine St", "", "", "", 0, NearCurve),
                      ItinLeg("BUS", 5200, "Pine St", "Lake Ave", "12", "", "Metro", 3,
                              DownCurve)>>),
          Itinerary(0, 0, <<>>)}

TAnswer(kind, status, body, itineraries) ==
    [kind |-> kind, status |-> status, parsed |-> FALSE, error_code |-> 0,
     error |-> "", body |-> body, trip |-> NoTrip, itineraries |-> itineraries]

TransitlandAnswers ==
    {TAnswer("neterr", 0, <<"connection refused">>, <<>>),
     TAnswer("readfail", 200, <<"unexpected EOF">>, <<>>),
     TAnswer("status", 401, <<"{\"error\":\"bad key\"}">>, <<>>),
     TAnswer("undecodable", 200, <<"unexpected end of JSON input">>, <<>>),
     TAnswer("ok", 200, <<>>, <<>>)}
    \cup {TAnswer("ok", 200, <<>>, <<it>>) : it \in Itineraries}

(***************************************************************************)
(* routing.go: route() and routeTransitUS().  What route() returns is      *)
(* [kind |-> "error", msg], [kind |-> "result", result], or a panic of     *)
(* decodePolyline, which unwinds through route() into the handler.         *)
(***************************************************************************)
Err(msg) == [kind |-> "error", msg |-> msg]

\* the zero value of Path
ZeroPath == [Points |-> <<>>, Length |-> 0, Width |-> 0, Height |-> 0]

PathOf(points) ==
    [Points |-> points, Length |-> Len(points),
     Width |-> NormalizedGridSize, Height |-> NormalizedGridSize]

RouteStep(number, description, distance, icon) ==
    [Number |-> number, Description |-> description,
     Distance |-> distance, Icon |-> icon]

RouteResponse(r, duration, distance, steps, path) ==
    [Duration |-> duration, Distance |-> distance, Units |-> r.Units,
     Mode |-> r.Mode,
     From |-> [Desc |-> r.FromDesc, Lat |-> r.FromLat, Lng |-> r.FromLng],
     To |-> [Desc |-> r.ToDesc, Lat |-> r.ToLat, Lng |-> r.ToLng],
     Steps |-> steps, Path |-> path]

BackendCall(backend, costing, units) ==
    [backend |-> backend, costing |-> costing, units |-> units, answer |-> None]

\* route() from its entry to its backend call: the error it returns before
\* any call, or the call it makes (http.Post to Valhalla; through
\* routeTransitUS, http.Get to Transitland) with the request as it then is.
routeEntry(r) ==
    IF r.Mode = ModeTransit /\ r.Country = "us" /\ navConfig.TransitlandURL # ""
    THEN IF navConfig.TransitlandURL = "" \/ navConfig.TransitlandAPIKey = ""
         THEN Err(<<"transitland configuration not complete">>)
         ELSE [kind |-> "call", req |-> r,
               call |-> BackendCall("transitland", "", "")]
    ELSE IF r.Units # "" /\ ~UnitIsValid(r.Units)
    THEN Err(<<"invalid units: must be one of: km, mi">>)
    ELSE LET r2 == [r EXCEPT !.Units = IF r.Units = "" THEN DefaultUnit ELSE r.Units]
         IN  [kind |-> "call", req |-> r2,
              call |-> BackendCall("valhalla",
                                   IF r2.Mode = ModeTransit THEN "transit"
                                   ELSE getTransportMode(r2.Mode),
                                   getValhallaUnits(r2.Units))]

\* A version of the fallback's request that is built afresh from the
\* coordinates alone.
fallbackRequestFresh(r) ==
    RouteRequest(r.FromLat, r.FromLng, r.ToLat, r.ToLng, "", "",
                 ModeAuto, DefaultUnit, r.Country)

\* "req.Mode = ModeAuto": the request of the fallback's recursive call
fallbackRequest(r) == [r EXCEPT !.Mode = ModeAuto]

\* A version of the fallback test that does not look at the mode.
fallbackAppliesAnyMode(r, code) == code = 170

\* "case 170: if req.Mode == ModeTransit {"
fallbackApplies(r, code) == code = 170 /\ r.Mode = ModeTransit

\* A version whose first-step override leaves out the auto mode.
directStepsNoDriveOverride(r, maneuvers) ==
    [i \in 1..Len(maneuvers) |->
        LET maneuver == maneuvers[i]
            icon == getStepIcon(maneuver.type, maneuver.instruction, "")
        IN  RouteStep(i, abbreviateInstruction(maneuver.instruction),
                      convertDistance(maneuver.lengthMilli, r.Units),
                      IF i = 1
                      THEN CASE r.Mode = ModeBiking -> "Cycle"
                             [] r.Mode = ModeWalking -> "Walk"
                             [] OTHER -> icon
                      ELSE icon)]

\* "for i, maneuver := range vResp.Trip.Legs[0].Maneuvers"
directSteps(r, maneuvers) ==
    [i \in 1..Len(maneuvers) |->
        LET maneuver == maneuvers[i]
            icon == getStepIcon(maneuver.type, maneuver.instruction, "")
        IN  RouteStep(i, abbreviateInstruction(maneuver.instruction),
                      convertDistance(maneuver.lengthMilli, r.Units),
                      IF i = 1
                      THEN CASE r.Mode = ModeBiking -> "Cycle"
                             [] r.Mode = ModeWalking -> "Walk"
                             [] r.Mode = ModeAuto -> "Drive"
                             [] OTHER -> icon
                      ELSE icon)]

\* route() from the decoded valhallaResponse on
assembleDirect(r, trip) ==
    LET distance == convertDistance(trip.summary.lengthMilli, r.Units)
    IN  IF Len(trip.legs) > 0
        THEN LET p == decodePolyline(trip.legs[1].shape)
             IN  IF p.panic THEN [kind |-> "panic"]
                 ELSE [kind |-> "result",
                       result |-> RouteResponse(r, trip.summary.time, distance,
                                                directSteps(r, trip.legs[1].maneuvers),
                                                PathOf(p.points))]
        ELSE [kind |-> "result",
              result |-> RouteResponse(r, trip.summary.time, distance, <<>>, ZeroPath)]

\* the first line of a message that ends with a raw body, then the body's
\* other lines
WithBody(prefix, body) == <<prefix \o body[1]>> \o Tail(body)

\* A version that issues the request again after a network failure.
valhallaReturnRetriesNetErr(r, ans) ==
    CASE ans.kind = "neterr" -> [kind |-> "retry", req |-> r]
      [] ans.kind = "readfail" ->
            Err(WithBody("valhalla API returned status " \o ToString(ans.status)
                           \o ", failed to read error message: ", ans.body))
      [] ans.kind = "status" /\ ans.parsed ->
            IF ans.error_code = 170
            THEN IF fallbackApplies(r, ans.error_code)
                 THEN [kind |-> "retry", req |-> fallbackRequest(r)]
                 ELSE Err(<<"no route found: locations are not connected in the transportation network">>)
            ELSE Err(<<"routing error: " \o ans.error>>)
      [] ans.kind = "status" /\ ~ans.parsed ->
            Err(WithBody("valhalla API returned status " \o ToString(ans.status)
                           \o ": ", ans.body))
      [] ans.kind = "undecodable" ->
            Err(WithBody("error decoding response: ", ans.body))
      [] OTHER -> assembleDirect(r, ans.trip)

\* route() from the return of http.Post on: [kind |-> "retry", req] is the
\* recursive call route(req) of the fallback.
valhallaReturn(r, ans) ==
    CASE ans.kind = "neterr" ->
            Err(WithBody("error making request to Valhalla: ", ans.body))
      [] ans.kind = "readfail" ->
            Err(WithBody("valhalla API returned status " \o ToString(ans.status)
                           \o ", failed to read error message: ", ans.body))
      [] ans.kind = "status" /\ ans.parsed ->
            IF ans.error_code = 170
            THEN IF fallbackApplies(r, ans.error_code)
                 THEN [kind |-> "retry", req |-> fallbackRequest(r)]
                 ELSE Err(<<"no route found: locations are not connected in the transportation network">>)
            ELSE Err(<<"routing error: " \o ans.error>>)
      [] ans.kind = "status" /\ ~ans.parsed ->
            Err(WithBody("valhalla API returned status " \o ToString(ans.status)
                           \o ": ", ans.body))
      [] ans.kind = "undecodable" ->
            Err(WithBody("error decoding response: ", ans.body))
      [] OTHER -> assembleDirect(r, ans.trip)

\* the switch on leg.Mode of routeTransitUS: the icon
legIcon(leg) ==
    CASE leg.mode = "WALK" -> "Walk"
      [] leg.mode \in {"BUS", "RAIL", "SUBWAY", "TRAM", "FERRY"} ->
            getStepIcon(0, "", leg.mode)
      [] OTHER -> "Straight"

\* the switch on leg.Mode of routeTransitUS: the description
legDescription(r, leg) ==
    CASE leg.mode = "WALK" ->
            (IF r.Country = "us"
             THEN "Walk " \o formatUSDistance(leg.distance)
             ELSE "Walk " \o ToString(leg.distance) \o " meters")
            \o (IF leg.toName # "" THEN " to " \o leg.toName ELSE "")
      [] leg.mode \in {"BUS", "RAIL", "SUBWAY", "TRAM", "FERRY"} ->
            "Take"
            \o (IF leg.routeShortName # "" THEN " the " \o leg.routeShortName ELSE "")
            \o (IF leg.routeLongName # "" THEN " " \o leg.routeLongName ELSE "")
            \o (IF leg.agencyName # "" THEN " operated by " \o leg.agencyName ELSE "")
            \o (IF leg.fromName # "" /\ leg.toName # ""
                THEN " from " \o leg.fromName \o " to " \o leg.toName ELSE "")
            \o (IF leg.intermediateStops > 0
                THEN " (" \o ToString(leg.intermediateStops) \o " stops)" ELSE "")
      [] OTHER ->
            IF r.Country = "us"
            THEN leg.mode \o " for " \o formatUSDistance(leg.distance)
            ELSE leg.mode \o " for " \o ToString(leg.distance) \o " meters"

transitSteps(r, legs) ==
    [i \in 1..Len(legs) |->
        RouteStep(i, legDescription(r, legs[i]),
                  convertDistance(legs[i].distance, r.Units), legIcon(legs[i]))]

\* allPoints: the decoded points of the legs, one leg after the other
RECURSIVE legPoints(_, _)
legPoints(legs, i) ==
    IF i > Len(legs) THEN [panic |-> FALSE, points |-> <<>>]
    ELSE LET p == IF legs[i].points # <<>> THEN decodePolyline(legs[i].points)
                  ELSE [panic |-> FALSE, points |-> <<>>]
             rest == legPoints(legs, i + 1)
         IN  IF p.panic \/ rest.panic THEN [panic |-> TRUE, points |-> <<>>]
             ELSE [panic |-> FALSE, points |-> p.points \o rest.points]

\* routeTransitUS() from the return of http.Get on
transitReturn(r, ans) ==
    CASE ans.kind = "neterr" ->
            Err(WithBody("error making request to transitland: ", ans.body))
      [] ans.kind = "readfail" ->
            Err(WithBody("error reading response body: ", ans.body))
      [] ans.kind = "status" ->
            Err(WithBody("transitland API returned status " \o ToString(ans.status)
                           \o ": ", ans.body))
      [] ans.kind = "undecodable" ->
            Err(WithBody("error decoding response: ", ans.body))
      [] OTHER ->
            IF Len(ans.itineraries) = 0
            THEN Err(<<"no route found">>)
            ELSE LET itinerary == ans.itineraries[1]
                     p == legPoints(itinerary.legs, 1)
                 IN  IF p.panic THEN [kind |-> "panic"]
                     ELSE [kind |-> "result",
                           result |->
                             RouteResponse(r, itinerary.duration,
                                           convertDistance(itinerary.walkDistance, r.Units),
                                           transitSteps(r, itinerary.legs),
                                           PathOf(p.points))]

(***************************************************************************)
(* handlers.go: what the handler writes once route() has returned.         *)
(***************************************************************************)
\* handleRouteRequest (the GET path calls it) after route() returned
handleRouteRequest(method, out) ==
    CASE out.kind = "panic" -> Aborted
      [] out.kind = "error" -> writeError(500, out.msg)
      [] OTHER -> IF method = "POST" THEN writePlainTextRoute(out.result)
                  ELSE writeJSON(out.result)

\* HandleRoute, case http.MethodPost, after route() returned
postRouteResponse(out) ==
    CASE out.kind = "panic" -> Aborted
      [] out.kind = "error" -> writeStub(out.msg)
      [] OTHER -> writePlainTextRoute(out.result)

respond(method, out) ==
    IF method = "GET" THEN handleRouteRequest(method, out)
    ELSE postRouteResponse(out)

(***************************************************************************)
(* The requests a client may send.                                         *)
(***************************************************************************)
ModeTexts == {"", "walking", "biking", "auto", "transit", "driving", "Transit"}

UnitTexts == {"", "km", "MI", "miles"}

CountryTexts == {"", "us", "DE", "usa"}

FromTexts == {<<"40.7", " -74.0">>, <<"abc">>, <<"40.7">>, <<"">>}

ToTexts == {<<"34.0", "-118.2">>, <<"34.0", "x">>, <<"34.0", "-118.2", "7">>}

DescTexts == {<<"", "">>, <<"Home", "Work">>}

Query(from, to, mode, units, country, fromDesc, toDesc) ==
    [from |-> from, to |-> to, mode |-> mode, units |-> units,
     country |-> country, fromDesc |-> fromDesc, toDesc |-> toDesc]

EmptyQuery == Query(<<"">>, <<"">>, "", "", "", "", "")

HttpRequest(method, query, readErr, body) ==
    [method |-> method, query |-> query, readErr |-> readErr, body |-> body]

GetRequests ==
    {HttpRequest("GET", Query(f, t, m, u, c, d[1], d[2]), FALSE, <<>>) :
        f \in FromTexts, t \in ToTexts, m \in ModeTexts, u \in UnitTexts,
        c \in CountryTexts, d \in DescTexts}

\* the lines of a POST body as sent (before HandleRoute trims the body)
PostBodies ==
    {<< <<m>>, <<c>>, <<u>>, f, t, <<d[1]>>, <<d[2]>> >> :
        f \in FromTexts, t \in ToTexts, m \in ModeTexts, u \in UnitTexts,
        c \in CountryTexts, d \in DescTexts}
    \cup {<< <<"40.7", " -74.0">>, <<"34.0", "-118.2">> >>, <<>>}

PostRequests ==
    {HttpRequest("POST", EmptyQuery, FALSE, b) : b \in PostBodies}
    \cup {HttpRequest("POST", EmptyQuery, TRUE, <<>>)}

HttpRequests ==
    GetRequests \cup PostRequests \cup {HttpRequest("PUT", EmptyQuery, FALSE, <<>>)}

\* strings.Split(strings.TrimSpace(string(body)), "\n"): the empty lines at
\* either end of the body are trimmed away; an empty text is one empty line.
RECURSIVE dropLeadingEmpty(_)
dropLeadingEmpty(lines) ==
    IF Len(lines) > 0 /\ TrimSpace(Join(lines[1], ",")) = ""
    THEN dropLeadingEmpty(Tail(lines)) ELSE lines

RECURSIVE dropTrailingEmpty(_)
dropTrailingEmpty(lines) ==
    IF Len(lines) > 0 /\ TrimSpace(Join(lines[Len(lines)], ",")) = ""
    THEN dropTrailingEmpty(SubSeq(lines, 1, Len(lines) - 1)) ELSE lines

splitBody(body) ==
    LET l == dropTrailingEmpty(dropLeadingEmpty(body))
    IN  IF l = <<>> THEN << <<"">> >> ELSE l

\* HandleRoute up to its call of route(): an early response, or the request
validate(h) ==
    CASE h.method = "GET" -> validateGet(h.query)
      [] h.method = "POST" -> validatePost(h.readErr, splitBody(h.body))
      [] OTHER ->
           [ok |-> FALSE,
            resp |-> writeError(405, <<"only GET and POST methods are allowed">>)]

(***************************************************************************)
(* The worker of one request.                                              *)
(***************************************************************************)
Configs ==
    [TransitlandURL : {"", "https://transit.land/api/v2"},
     TransitlandAPIKey : {"", "key"}]

Init ==
    /\ navConfig \in Configs
    /\ pc = "idle"
    /\ httpReq = None
    /\ callerReq = None
    /\ req = None
    /\ calls = <<>>
    /\ inflight = {}
    /\ outcome = None
    /\ resp = None
    /\ encoded = <<>>
    /\ decoded = None
    /\ fmtDistance = None
    /\ fmtUnits = None
    /\ fmtText = ""

\* route() returned out: the handler writes the response and returns
Finish(method, out) ==
    /\ outcome' = out
    /\ resp' = respond(method, out)
    /\ pc' = "done"

\* route() reaches a backend call
Issue(e) ==
    /\ req' = e.req
    /\ calls' = Append(calls, e.call)
    /\ inflight' = inflight \cup {Len(calls) + 1}
    /\ pc' = "awaiting"
    /\ UNCHANGED <<outcome, resp>>

\* HandleRoute, from the arrival of a request to its first backend call or,
\* if it makes none, to its return.
HandleRoute ==
    /\ pc = "idle"
    /\ \E h \in HttpRequests :
          LET v == validate(h)
          IN  /\ httpReq' = h
              /\ IF ~v.ok
                 THEN /\ resp' = v.resp
                      /\ pc' = "done"
                      /\ UNCHANGED <<callerReq, req, calls, inflight, outcome>>
                 ELSE /\ callerReq' = v.req
                      /\ LET e == routeEntry(v.req)
                         IN  IF e.kind = "call"
                             THEN Issue(e)
                             ELSE /\ Finish(h.method, e)
                                  /\ req' = v.req
                                  /\ UNCHANGED <<calls, inflight>>
    /\ UNCHANGED <<navConfig, decodeVars, formatVars>>

\* The rest of the handler once route() has ret: a retry goes through
\* route() again, anything else returns to the handler.
Continue(ret) ==
    IF ret.kind = "retry"
    THEN LET e == routeEntry(ret.req)
         IN  IF e.kind = "call"
             THEN /\ req' = e.req
                  /\ pc' = "awaiting"
                  /\ UNCHANGED <<outcome, resp>>
             ELSE /\ Finish(httpReq.method, e)
                  /\ req' = ret.req
    ELSE /\ Finish(httpReq.method, ret)
         /\ UNCHANGED req

\* the calls after the answer ans to the last one, and ret
callsAfter(ans, ret) ==
    LET answered == [calls EXCEPT ![Len(calls)].answer = ans]
    IN  IF ret.kind = "retry" /\ routeEntry(ret.req).kind = "call"
        THEN Append(answered, routeEntry(ret.req).call)
        ELSE answered

inflightAfter(ret) ==
    IF ret.kind = "retry" /\ routeEntry(ret.req).kind = "call"
    THEN (inflight \ {Len(calls)}) \cup {Len(calls) + 1}
    ELSE inflight \ {Len(calls)}

\* Valhalla answers the http.Post of route(): route() runs on to its return
\* or, in the fallback, to the http.Post of the recursive call.
ValhallaAnswer ==
    /\ pc = "awaiting"
    /\ calls[Len(calls)].backend = "valhalla"
    /\ \E ans \in ValhallaAnswers :
          LET ret == valhallaReturn(req, ans)
          IN  /\ calls' = callsAfter(ans, ret)
              /\ inflight' = inflightAfter(ret)
              /\ Continue(ret)
    /\ UNCHANGED <<navConfig, httpReq, callerReq, decodeVars, formatVars>>

\* Transitland answers the http.Get of routeTransitUS()
TransitlandAnswer ==
    /\ pc = "awaiting"
    /\ calls[Len(calls)].backend = "transitland"
    /\ \E ans \in TransitlandAnswers :
          LET ret == transitReturn(req, ans)
          IN  /\ calls' = callsAfter(ans, ret)
              /\ inflight' = inflightAfter(ret)
              /\ Continue(ret)
    /\ UNCHANGED <<navConfig, httpReq, callerReq, decodeVars, formatVars>>

\* The response is sent; everything of the request is discarded and the
\* server takes the next request.
NextRequest ==
    /\ pc = "done"
    /\ pc' = "idle"
    /\ httpReq' = None
    /\ callerReq' = None
    /\ req' = None
    /\ calls' = <<>>
    /\ inflight' = {}
    /\ outcome' = None
    /\ resp' = None
    /\ UNCHANGED <<navConfig, decodeVars, formatVars>>

Next == HandleRoute \/ ValhallaAnswer \/ TransitlandAnswer \/ NextRequest

Spec == Init /\ [][Next]_vars

\* What the Go runtime and net/http guarantee: a handler that can run does
\* run, and a handler that returned has its response sent.  Nothing makes a
\* backend answer, so the two answer actions get no fairness; the code sets
\* no timeout on http.Post / http.Get, so no other step leaves "awaiting".
Fairness == WF_vars(HandleRoute) /\ WF_vars(NextRequest)

SpecLive == Spec /\ Fairness

(***************************************************************************)
(* Stand-alone calls of decodePolyline: the input is built character by    *)
(* character from a small alphabet ('?', '@', 'A', 'B', '_', '`': the      *)
(* values 0..3 and the continuation groups 32, 33), or is one of the       *)
(* seeds.                                                                  *)
(***************************************************************************)
Alphabet == {63, 64, 65, 66, 95, 96}

DecodeSeeds == {<<>>, ScenarioCurve, NearCurve, RepeatCurve}

\* the number of continuation characters the string ends with
RECURSIVE trailingCont(_, _)
trailingCont(enc, i) ==
    IF i = 0 \/ enc[i] - 63 < 32 THEN 0 ELSE 1 + trailingCont(enc, i - 1)

AppendByte ==
    /\ pc = "decode"
    /\ decoded = None
    /\ Len(encoded) < MaxLen
    /\ \E c \in Alphabet :
          /\ c - 63 >= 32 => trailingCont(encoded, Len(encoded)) < MaxChunks - 1
          /\ encoded' = Append(encoded, c)
    /\ UNCHANGED <<decoded, routeVars, formatVars>>

Decode ==
    /\ pc = "decode"
    /\ decoded = None
    /\ decoded' = decodePolyline(encoded)
    /\ UNCHANGED <<encoded, routeVars, formatVars>>

InitDecode ==
    /\ pc = "decode"
    /\ encoded \in DecodeSeeds
    /\ decoded = None
    /\ navConfig = None
    /\ httpReq = None
    /\ callerReq = None
    /\ req = None
    /\ calls = <<>>
    /\ inflight = {}
    /\ outcome = None
    /\ resp = None
    /\ fmtDistance = None
    /\ fmtUnits = None
    /\ fmtText = ""

NextDecode == AppendByte \/ Decode

SpecDecode == InitDecode /\ [][NextDecode]_vars

(***************************************************************************)
(* Stand-alone calls of formatDistance: the distance, in thousandths of    *)
(* the unit, grows from 0 in steps of 1, 10 and 100.                       *)
(***************************************************************************)
Lengthen ==
    /\ pc = "format"
    /\ fmtText = ""
    /\ \E step \in {1, 10, 100} :
          /\ fmtDistance[1] + step <= MaxThousandths
          /\ fmtDistance' = <<fmtDistance[1] + step, fmtDistance[2]>>
    /\ UNCHANGED <<fmtUnits, fmtText, routeVars, decodeVars>>

Format ==
    /\ pc = "format"
    /\ fmtText = ""
    /\ fmtText' = formatDistance(fmtDistance, fmtUnits)
    /\ UNCHANGED <<fmtDistance, fmtUnits, routeVars, decodeVars>>

InitFormat ==
    /\ pc = "format"
    /\ fmtDistance = <<0, 1000>>
    /\ fmtUnits \in {UnitKilometers, UnitMiles}
    /\ fmtText = ""
    /\ encoded = <<>>
    /\ decoded = None
    /\ navConfig = None
    /\ httpReq = None
    /\ callerReq = None
    /\ req = None
    /\ calls = <<>>
    /\ inflight = {}
    /\ outcome = None
    /\ resp = None

NextFormat == Lengthen \/ Format

SpecFormat == InitFormat /\ [][NextFormat]_vars

(***************************************************************************)
(* Properties of the route endpoint (checked under Spec).                  *)
(***************************************************************************)
\* the answer is Valhalla's structured "not connected" error
NotConnected(ans) ==
    ans # None /\ ans.kind = "status" /\ ans.parsed /\ ans.error_code = 170

\* the answer makes route() return an error
Failure(ans) ==
    ans # None /\ ans.kind \in {"neterr", "readfail", "status", "undecodable"}

\* C1: a transit request to Valhalla answered with error_code 170 is
\* re-issued with costing auto exactly once; whatever the retried call
\* answers, a failure is returned and no third call is made.  One request
\* causes at most two backend calls, never two at a time.
C1_FallbackOnce ==
    /\ Len(calls) <= 2
    /\ Cardinality(inflight) <= 1
    /\ \A i \in inflight : i = Len(calls) /\ calls[i].answer = None
    /\ \A i \in 1..Len(calls) : i \notin inflight => calls[i].answer # None
    /\ Len(calls) = 2 =>
          /\ calls[1].backend = "valhalla"
          /\ calls[1].costing = "transit"
          /\ NotConnected(calls[1].answer)
          /\ calls[2].backend = "valhalla"
          /\ calls[2].costing = "auto"
          /\ calls[2].units = calls[1].units
    /\ (/\ Len(calls) >= 1
        /\ calls[1].backend = "valhalla"
        /\ calls[1].costing = "transit"
        /\ NotConnected(calls[1].answer)) => Len(calls) = 2
    /\ (Len(calls) = 2 /\ Failure(calls[2].answer)) =>
          /\ pc = "done"
          /\ outcome.kind = "error"
          /\ NotConnected(calls[2].answer) =>
                outcome.msg = <<"no route found: locations are not connected in the transportation network">>

\* The retry was answered "not connected" too, and that error was returned.
C1_Witness ==
    /\ pc = "done"
    /\ Len(calls) = 2
    /\ NotConnected(calls[1].answer)
    /\ NotConnected(calls[2].answer)
    /\ callerReq.Mode = ModeTransit
    /\ outcome.kind = "error"

(***************************************************************************)
(* Properties of decodePolyline (checked under SpecDecode).                *)
(***************************************************************************)
Returned == decoded # None /\ ~decoded.panic

RawOfEncoded == decodeRaw(encoded, 1, 0, 0, <<>>).rawPoints

\* s is a subsequence of t: the elements of s from i on are found, in order,
\* among the elements of t from j on.
RECURSIVE IsSubseqFrom(_, _, _, _)
IsSubseqFrom(s, i, t, j) ==
    IF i > Len(s) THEN TRUE
    ELSE IF j > Len(t) THEN FALSE
    ELSE IF s[i] = t[j] THEN IsSubseqFrom(s, i + 1, t, j + 1)
    ELSE IsSubseqFrom(s, i, t, j + 1)

\* C2, as stated: every point decodePolyline returns has both coordinates
\* in [0,99].
C2_AllBelowGrid ==
    Returned =>
        \A i \in 1..Len(decoded.points) :
            /\ decoded.points[i][1] \in 0..99
            /\ decoded.points[i][2] \in 0..99

\* C2, amended: every point decodePolyline returns has both coordinates in
\* [0,100], the value 100 (NormalizedGridSize) included.
C2_WithinClamp ==
    Returned =>
        \A i \in 1..Len(decoded.points) :
            /\ decoded.points[i][1] \in 0..100
            /\ decoded.points[i][2] \in 0..100

\* The scenario curve is decoded and a returned coordinate equals 100.
C2_Witness ==
    /\ encoded = ScenarioCurve
    /\ Returned
    /\ Len(decoded.points) = 3
    /\ \E i \in 1..Len(decoded.points) : decoded.points[i][1] = 100

\* C3: no two distinct returned points are within Manhattan distance 2 of
\* each other, and the returned points are a subsequence of the projected
\* points that starts with the first projected point.
C3_DedupAllPairs ==
    Returned /\ encoded # <<>> =>
        /\ \A i, j \in 1..Len(decoded.points) :
              i # j =>
                abs(decoded.points[i][1] - decoded.points[j][1])
                  + abs(decoded.points[i][2] - decoded.points[j][2]) > 2
        /\ IsSubseqFrom(decoded.points, 1, projectAll(RawOfEncoded), 1)
        /\ decoded.points[1] = projectAll(RawOfEncoded)[1]

\* A point near the first one, not adjacent to it in the input, was dropped.
C3_Witness ==
    /\ encoded = NearCurve
    /\ Returned
    /\ projectAll(RawOfEncoded) = <<<<0, 2>>, <<0, 100>>, <<0, 0>>>>
    /\ decoded.points = <<<<0, 2>>, <<0, 100>>>>

\* C4: the returned path is empty exactly when the input is empty, and it
\* has exactly one point when all decoded points are one geographic point.
C4_EmptyAndRepeated ==
    decoded # None =>
        /\ (~decoded.panic /\ decoded.points = <<>>) <=> (encoded = <<>>)
        /\ (/\ ~decoded.panic
            /\ encoded # <<>>
            /\ \A i \in 1..Len(RawOfEncoded) : RawOfEncoded[i] = RawOfEncoded[1])
           => Len(decoded.points) = 1

\* One point, given three times, came back as one point.
C4_Witness ==
    /\ encoded = RepeatCurve
    /\ Returned
    /\ Len(RawOfEncoded) = 3
    /\ RawOfEncoded[3] = <<48, -49>>
    /\ decoded.points = <<<<0, 0>>>>

(***************************************************************************)
(* Properties of the results and the responses (checked under Spec).       *)
(***************************************************************************)
Routed == outcome # None /\ outcome.kind = "result"

LastAnswer == calls[Len(calls)].answer

RECURSIVE totalManeuvers(_, _)
totalManeuvers(legs, i) ==
    IF i > Len(legs) THEN 0
    ELSE Len(legs[i].maneuvers) + totalManeuvers(legs, i + 1)

\* C5: the step numbers of a RouteResult are 1..N in order, N being the
\* number of maneuvers of all legs of the trip (direct routing) or the
\* number of legs of the first itinerary (itinerary routing).
C5_StepNumbers ==
    Routed =>
        LET steps == outcome.result.Steps
            N == IF calls[Len(calls)].backend = "valhalla"
                 THEN totalManeuvers(LastAnswer.trip.legs, 1)
                 ELSE Len(LastAnswer.itineraries[1].legs)
        IN  /\ Len(steps) = N
            /\ \A i \in 1..Len(steps) : steps[i].Number = i

\* the icon the transit-mode table gives: "" for a mode not in the table
TransitIcon(mode) ==
    CASE mode = "BUS" -> "Bus"
      [] mode \in {"RAIL", "SUBWAY", "TRAM", "TRAIN"} -> "Train"
      [] mode \in {"FERRY", "BOAT"} -> "Ferry"
      [] mode = "WALK" -> "Walk"
      [] OTHER -> ""

\* C6: every step built from an itinerary leg whose mode is in the
\* transit-mode table has the icon the table gives for that mode.
C6_TransitIcons ==
    (Routed /\ calls[Len(calls)].backend = "transitland") =>
        LET legs == LastAnswer.itineraries[1].legs
        IN  \A i \in 1..Len(legs) :
                TransitIcon(legs[i].mode) # "" =>
                    /\ i <= Len(outcome.result.Steps)
                    /\ outcome.result.Steps[i].Icon = TransitIcon(legs[i].mode)

PostFailed ==
    /\ pc = "done"
    /\ httpReq.method = "POST"
    /\ outcome = None \/ outcome.kind = "error"

\* C8: every failing POST is answered with exactly four lines: two empty
\* lines, "0", and one line with the error message.
C8_StubFourLines ==
    PostFailed =>
        /\ resp.kind = "text"
        /\ Len(resp.lines) = 4
        /\ resp.lines[1] = ""
        /\ resp.lines[2] = ""
        /\ resp.lines[3] = "0"

\* the text is a "lat,lng" pair (given as its comma-separated fields)
WellFormedLatLng(s) ==
    /\ Len(s) = 2
    /\ TrimSpace(s[1]) \in FloatTexts
    /\ TrimSpace(s[2]) \in FloatTexts

\* the from and to texts of the request (none in a body of under 5 lines)
FromText(h) ==
    IF h.method = "GET" THEN h.query.from
    ELSE IF Len(splitBody(h.body)) >= 5 THEN splitBody(h.body)[4] ELSE <<>>

ToText(h) ==
    IF h.method = "GET" THEN h.query.to
    ELSE IF Len(splitBody(h.body)) >= 5 THEN splitBody(h.body)[5] ELSE <<>>

MalformedCoordinates(h) ==
    /\ h.method \in {"GET", "POST"}
    /\ ~h.readErr
    /\ ~WellFormedLatLng(FromText(h)) \/ ~WellFormedLatLng(ToText(h))

\* the mode or units text of the request is given and is no enumerated value
UnknownToken(h) ==
    IF h.method = "GET"
    THEN \/ h.query.mode # "" /\ ~ModeIsValid(ToLower(h.query.mode))
         \/ h.query.units # "" /\ ~UnitIsValid(ToLower(h.query.units))
    ELSE /\ h.method = "POST"
         /\ Len(splitBody(h.body)) >= 5
         /\ \/ ~ModeIsValid(ToLower(TrimSpace(Join(splitBody(h.body)[1], ","))))
            \/ ~UnitIsValid(ToLower(TrimSpace(Join(splitBody(h.body)[3], ","))))

\* C9: a request with an InvalidInput fault (malformed coordinates, unknown
\* mode or unit token, malformed body) is answered with a 4xx status, on
\* the GET path and on the POST path.
C9_ClientFaultStatus ==
    (/\ pc = "done"
     /\ \/ MalformedCoordinates(httpReq)
        \/ UnknownToken(httpReq)
        \/ httpReq.readErr) =>
        resp.status \in 400..499

\* C10: when from or to does not parse as "lat,lng", the handler answers
\* with an error and no backend call is made, for GET and for POST.
C10_NoCallOnBadCoordinates ==
    (httpReq # None /\ MalformedCoordinates(httpReq)) =>
        /\ calls = <<>>
        /\ pc = "done"
        /\ outcome = None
        /\ resp.error # <<>>
        /\ httpReq.method = "GET" => resp.kind = "json-error" /\ resp.status = 400
        /\ httpReq.method = "POST" =>
              resp.kind = "text" /\ SubSeq(resp.lines, 1, 3) = <<"", "", "0">>

\* A request with from=abc was refused without a backend call.
C10_Witness ==
    /\ pc = "done"
    /\ httpReq.method \in {"GET", "POST"}
    /\ FromText(httpReq) = <<"abc">>
    /\ WellFormedLatLng(ToText(httpReq))
    /\ calls = <<>>
    /\ resp.error # <<>>

(***************************************************************************)
(* Properties of the boundary: what is accepted (checked under Spec).      *)
(***************************************************************************)
\* the mode and units texts of the request as the handler reads them ("" in
\* a body of under 5 lines)
ModeText(h) ==
    IF h.method = "GET" THEN h.query.mode
    ELSE IF Len(splitBody(h.body)) >= 5
    THEN TrimSpace(Join(splitBody(h.body)[1], ",")) ELSE ""

UnitsText(h) ==
    IF h.method = "GET" THEN h.query.units
    ELSE IF Len(splitBody(h.body)) >= 5
    THEN TrimSpace(Join(splitBody(h.body)[3], ",")) ELSE ""

\* a mode or units text is given (not empty) and is no enumerated value
InvalidEnumText(h) ==
    /\ h.method \in {"GET", "POST"}
    /\ \/ ModeText(h) # "" /\ ~ModeIsValid(ToLower(ModeText(h)))
       \/ UnitsText(h) # "" /\ ~UnitIsValid(ToLower(UnitsText(h)))

\* C11: a request whose mode or units text is given and is not one of the
\* enumerated values is answered with an error and is never routed (no
\* backend call, no RouteRequest built from it), for GET and for POST.
C11_InvalidEnumRejected ==
    (httpReq # None /\ InvalidEnumText(httpReq)) =>
        /\ pc = "done"
        /\ calls = <<>>
        /\ callerReq = None
        /\ resp.error # <<>>

\* the body is exactly two lines, each a "lat,lng" pair
TwoLineBody(h) ==
    /\ h.method = "POST"
    /\ ~h.readErr
    /\ Len(h.body) = 2
    /\ WellFormedLatLng(h.body[1])
    /\ WellFormedLatLng(h.body[2])

\* C12: a POST whose body is exactly two "lat,lng" lines is accepted and
\* routed from the first line to the second with the default mode and the
\* default units.
C12_TwoLinePostRouted ==
    (httpReq # None /\ TwoLineBody(httpReq)) =>
        /\ callerReq # None
        /\ callerReq.Mode = DefaultMode
        /\ callerReq.Units = DefaultUnit
        /\ callerReq.FromLat = TrimSpace(httpReq.body[1][1])
        /\ callerReq.ToLat = TrimSpace(httpReq.body[2][1])
        /\ calls # <<>>

\* C13: a GET request with mode=driving (its other parameters being valid)
\* is accepted and routed with the auto costing profile; it is not answered
\* with an invalid-mode error.
C13_DrivingAccepted ==
    (/\ httpReq # None
     /\ httpReq.method = "GET"
     /\ httpReq.query.mode = "driving"
     /\ WellFormedLatLng(httpReq.query.from)
     /\ WellFormedLatLng(httpReq.query.to)
     /\ httpReq.query.units = "" \/ UnitIsValid(ToLower(httpReq.query.units))
     /\ httpReq.query.country = "" \/ CountryIsValid(ToLower(httpReq.query.country))) =>
        /\ callerReq # None
        /\ callerReq.Mode = ModeAuto
        /\ calls # <<>>
        /\ calls[1].backend = "valhalla"
        /\ calls[1].costing = "auto"

(***************************************************************************)
(* Properties of the distances (checked under Spec).  A distance is an     *)
(* exact fraction <<n, d>>.                                                *)
(***************************************************************************)
RECURSIVE gcd(_, _)
gcd(a, b) == IF b = 0 THEN a ELSE gcd(b, a % b)

\* a fraction in lowest terms
Lowest(p) == LET g == gcd(p[1], p[2]) IN <<p[1] \div g, p[2] \div g>>

\* the product of two fractions, in lowest terms
FracMul(p, q) ==
    LET a == Lowest(p)
        b == Lowest(q)
        g1 == gcd(a[1], b[2])
        g2 == gcd(b[1], a[2])
    IN  <<(a[1] \div g1) * (b[1] \div g2), (a[2] \div g2) * (b[2] \div g1)>>

\* two fractions are the same number
FracEq(p, q) == Lowest(p) = Lowest(q)

\* The length in meters a backend length stands for: Valhalla gives its
\* lengths in the unit the request's "units" field names (value is the
\* JSON number in thousandths; 1 mile = 1609.344 m = 25146/15625 km).
lengthInMeters(unitsToken, value) ==
    IF unitsToken = "miles"
    THEN FracMul(<<value, 1>>, <<25146, 15625>>)
    ELSE <<value, 1>>

\* meters / 1000 for km, meters / 1609.344 for mi
inRequestedUnit(meters, u) ==
    IF u = UnitMiles
    THEN FracMul(meters, <<1000, metersPerMileMilli>>)
    ELSE FracMul(meters, <<1, 1000>>)

\* C14: in a direct-routing result the summary distance and every step
\* distance are the backend's lengths (in meters) expressed in the requested
\* unit, for km and for mi.
C14_DistanceInRequestedUnit ==
    (Routed /\ calls[Len(calls)].backend = "valhalla") =>
        LET result == outcome.result
            trip == LastAnswer.trip
            token == calls[Len(calls)].units
        IN  /\ FracEq(result.Distance,
                      inRequestedUnit(lengthInMeters(token, trip.summary.lengthMilli),
                                      result.Units))
            /\ \A i \in 1..Len(result.Steps) :
                  FracEq(result.Steps[i].Distance,
                         inRequestedUnit(
                             lengthInMeters(token, trip.legs[1].maneuvers[i].lengthMilli),
                             result.Units))

(***************************************************************************)
(* Properties of formatDistance (checked under SpecFormat).                *)
(***************************************************************************)
\* text is the quantity p (a fraction), rounded to the nearest whole number
\* and followed by suffix
WholeText(p, suffix, text) ==
    \E k \in {p[1] \div p[2], p[1] \div p[2] + 1} :
        /\ 2 * abs(k * p[2] - p[1]) <= p[2]
        /\ text = ToString(k) \o suffix

\* text is the quantity p, rounded to the nearest tenth and written with
\* exactly one decimal, followed by suffix
OneDecimalText(p, suffix, text) ==
    \E t \in {(10 * p[1]) \div p[2], (10 * p[1]) \div p[2] + 1} :
        /\ 2 * abs(t * p[2] - 10 * p[1]) <= p[2]
        /\ text = ToString(t \div 10) \o "." \o ToString(t % 10) \o suffix

\* the distance in the small unit: meters for km, feet for mi
InSmallUnit(distance, u) ==
    IF u = UnitMiles THEN <<distance[1] * 5280, distance[2]>>
    ELSE <<distance[1] * 1000, distance[2]>>

SmallSuffix(u) == IF u = UnitMiles THEN "ft" ELSE "m"

\* C15, as stated: a distance below 1 unit is printed in the small unit
\* with no decimals, a distance of 1 unit or more with exactly one decimal
\* and the unit suffix, for km and for mi.
C15_SmallUnitBelowOne ==
    fmtText # "" =>
        IF fmtDistance[1] < fmtDistance[2]
        THEN WholeText(InSmallUnit(fmtDistance, fmtUnits), SmallSuffix(fmtUnits), fmtText)
        ELSE OneDecimalText(fmtDistance, fmtUnits, fmtText)

\* C15, amended: the small unit is used below 1 km and below 0.1 mi; from
\* 1 km and from 0.1 mi on the distance is printed with exactly one decimal
\* and the unit suffix.
C15_SmallUnitBelowThreshold ==
    fmtText # "" =>
        IF \/ fmtUnits = UnitKilometers /\ fmtDistance[1] < fmtDistance[2]
           \/ fmtUnits = UnitMiles /\ 10 * fmtDistance[1] < fmtDistance[2]
        THEN WholeText(InSmallUnit(fmtDistance, fmtUnits), SmallSuffix(fmtUnits), fmtText)
        ELSE OneDecimalText(fmtDistance, fmtUnits, fmtText)

\* Half a mile was printed in miles.
C15_Witness ==
    /\ fmtUnits = UnitMiles
    /\ fmtDistance = <<500, 1000>>
    /\ fmtText = "0.5mi"

(***************************************************************************)
(* Progress of the worker (checked under SpecLive).                        *)
(***************************************************************************)
\* C16: a worker that waits for a backend's answer finishes and writes a
\* response whether or not the backend ever answers: the backend call is
\* bounded in time.
C16_WorkerAlwaysFinishes ==
    (pc = "awaiting") ~> (pc = "done" /\ resp # None)

(***************************************************************************)
(* Properties of the choice of backend and of retries (checked under Spec).*)
(***************************************************************************)
\* the itinerary backend is configured: its URL and its API key are set
TransitlandConfigured ==
    navConfig.TransitlandURL # "" /\ navConfig.TransitlandAPIKey # ""

\* C17: the itinerary backend is called only for a transit request with
\* country "us" while it is configured; a request that reaches route() in
\* any other case calls the direct-routing backend, as does the retry of
\* the fallback; without the URL or without the API key no itinerary
\* backend call is made.
C17_SelectionRule ==
    callerReq # None =>
        LET itinerary == /\ callerReq.Mode = ModeTransit
                         /\ callerReq.Country = "us"
                         /\ TransitlandConfigured
        IN  /\ \A i \in 1..Len(calls) :
                  calls[i].backend = "transitland" => i = 1 /\ itinerary
            /\ itinerary => calls # <<>> /\ calls[1].backend = "transitland"
            /\ ~itinerary => calls # <<>> /\ calls[1].backend = "valhalla"
            /\ Len(calls) = 2 => calls[2].backend = "valhalla"

\* the answer is a failure other than the one the fallback retries
NoRetryFailure(call) ==
    \/ /\ call.backend = "valhalla"
       /\ Failure(call.answer)
       /\ ~(NotConnected(call.answer) /\ call.costing = "transit")
    \/ /\ call.backend = "transitland"
       /\ call.answer # None
       /\ Failure(call.answer) \/ Len(call.answer.itineraries) = 0

\* C18: a structured error with a code other than 170, a code-170 error of
\* a request that is not transit, a non-success status with an unparseable
\* body, a network failure and every failure of the itinerary backend (zero
\* itineraries included) are returned as an error after exactly one call.
C18_NoOtherRetry ==
    (Len(calls) >= 1 /\ NoRetryFailure(calls[1])) =>
        /\ Len(calls) = 1
        /\ inflight = {}
        /\ pc = "done"
        /\ outcome.kind = "error"

\* A walking request answered "not connected" was not retried.
C18_Witness ==
    /\ pc = "done"
    /\ Len(calls) = 1
    /\ calls[1].costing = "pedestrian"
    /\ NotConnected(calls[1].answer)
    /\ outcome.kind = "error"

(***************************************************************************)
(* Robustness of decodePolyline (checked under SpecDecode) and the path of *)
(* an itinerary (checked under Spec).                                      *)
(***************************************************************************)
\* C19: decodePolyline returns for every input string; it never reads past
\* the end of the string.
C19_NeverPanics ==
    decoded # None => ~decoded.panic

\* C20: in the path of a result built from an itinerary with several legs,
\* consecutive points are never within Manhattan distance 2 of each other,
\* also where one leg ends and the next begins.
C20_ConcatenatedPathDedup ==
    (/\ Routed
     /\ calls[Len(calls)].backend = "transitland"
     /\ Len(LastAnswer.itineraries[1].legs) > 1) =>
        LET points == outcome.result.Path.Points
        IN  \A i \in 1..(Len(points) - 1) :
                abs(points[i][1] - points[i + 1][1])
                  + abs(points[i][2] - points[i + 1][2]) > 2

(***************************************************************************)
(* Properties of the steps and of their lines (checked under Spec).        *)
(***************************************************************************)
\* the maneuver-type table: "" for a code it does not hold
ManeuverIcon(code) ==
    CASE code \in {1, 2, 10, 11, 12} -> "Right"
      [] code \in {3, 13, 14, 15, 19} -> "Left"
      [] code \in {9, 23} -> "right"
      [] code \in {16, 24} -> "left"
      [] code \in {7, 8, 17, 22} -> "Straight"
      [] code \in {25, 26, 37, 38} -> "Merge"
      [] code \in {20, 21, 27} -> "Exit"
      [] code \in {28, 29} -> "Ferry"
      [] code \in {42, 43} -> "building"
      [] OTHER -> ""

DirectResult == Routed /\ calls[Len(calls)].backend = "valhalla"

\* C21: in a direct-routing result the first step's icon is Cycle, Walk or
\* Drive for the result modes biking, walking and auto, whatever the first
\* maneuver's type; every later step has the icon of the maneuver-type
\* table for its maneuver's code, the empty icon for an unknown code.
C21_FirstStepIconByMode ==
    (DirectResult /\ Len(outcome.result.Steps) >= 1) =>
        LET result == outcome.result
            maneuvers == LastAnswer.trip.legs[1].maneuvers
        IN  /\ result.Mode = ModeBiking => result.Steps[1].Icon = "Cycle"
            /\ result.Mode = ModeWalking => result.Steps[1].Icon = "Walk"
            /\ result.Mode = ModeAuto => result.Steps[1].Icon = "Drive"
            /\ \A i \in 2..Len(result.Steps) :
                  result.Steps[i].Icon = ManeuverIcon(maneuvers[i].type)

\* After the fallback the first step, a maneuver of type 1, has the icon
\* Drive; the later steps have Left and, for the type 4, no icon.
C21_Witness ==
    /\ DirectResult
    /\ Len(calls) = 2
    /\ callerReq.Mode = ModeTransit
    /\ Len(outcome.result.Steps) = 3
    /\ LastAnswer.trip.legs[1].maneuvers[1].type = 1
    /\ outcome.result.Steps[1].Icon = "Drive"
    /\ outcome.result.Steps[2].Icon = "Left"
    /\ outcome.result.Steps[3].Icon = ""

\* C22: in a plain-text response the description line of step i is the
\* description followed by " (<formatted step distance>)" exactly when the
\* result mode is not transit and i is not the last step; otherwise it is
\* the description alone.
C22_DistanceSuffix ==
    (pc = "done" /\ httpReq.method = "POST" /\ Routed) =>
        LET result == outcome.result
            N == Len(result.Steps)
        IN  /\ Len(resp.lines) = 3 + 2 * N
            /\ \A i \in 1..N :
                  resp.lines[3 + 2 * i] =
                     IF result.Mode # ModeTransit /\ i < N
                     THEN result.Steps[i].Description \o " ("
                            \o formatDistance(result.Steps[i].Distance, result.Units)
                            \o ")"
                     ELSE result.Steps[i].Description

\* After the fallback (result mode auto) the first two of three steps carry
\* their distance and the last one does not.
C22_Witness ==
    /\ pc = "done"
    /\ httpReq.method = "POST"
    /\ Routed
    /\ Len(calls) = 2
    /\ outcome.result.Mode = ModeAuto
    /\ outcome.result.Units = UnitKilometers
    /\ Len(outcome.result.Steps) = 3
    /\ resp.lines[5] = "Drive N on Main St (1.2km)"
    /\ resp.lines[9] = outcome.result.Steps[3].Description

\* the sum of the distances (meters) of the legs from i on
RECURSIVE legDistanceSum(_, _)
legDistanceSum(legs, i) ==
    IF i > Len(legs) THEN 0 ELSE legs[i].distance + legDistanceSum(legs, i + 1)

\* C23: the distance of a result built from an itinerary is the sum of the
\* distances of all its legs, in the requested unit.
C23_ItineraryTotalDistance ==
    (Routed /\ calls[Len(calls)].backend = "transitland") =>
        FracEq(outcome.result.Distance,
               inRequestedUnit(<<legDistanceSum(LastAnswer.itineraries[1].legs, 1), 1>>,
                               outcome.result.Units))

\* C24: when the fallback happened and the retry succeeded, the result has
\* the mode auto and the units, labels and coordinates of the original
\* request, and the handler's RouteRequest is as it was built, its mode
\* still transit.
C24_FallbackFrame ==
    (Routed /\ Len(calls) = 2) =>
        LET result == outcome.result
        IN  /\ result.Mode = ModeAuto
            /\ result.Units = callerReq.Units
            /\ result.From = [Desc |-> callerReq.FromDesc, Lat |-> callerReq.FromLat,
                              Lng |-> callerReq.FromLng]
            /\ result.To = [Desc |-> callerReq.ToDesc, Lat |-> callerReq.ToLat,
                            Lng |-> callerReq.ToLng]
            /\ callerReq.Mode = ModeTransit
            /\ callerReq = validate(httpReq).req

\* A labelled transit request in miles was answered after the fallback.
C24_Witness ==
    /\ Routed
    /\ Len(calls) = 2
    /\ callerReq.Mode = ModeTransit
    /\ callerReq.Units = UnitMiles
    /\ callerReq.FromDesc = "Home"
    /\ outcome.result.Mode = ModeAuto
    /\ outcome.result.From.Desc = "Home"

====
